---- MODULE Spec2Model ----
(***************************************************************************)
(* The request pipeline of coa-api (main.go): handler() wraps a domain     *)
(* operation with authentication (user), a lease of a *repository from     *)
(* repositoryPool, the rebinding of its user field, the call of the domain *)
(* operation, the response (check / json Encode) and the deferred Put.     *)
(* net/http serves every connection in a goroutine of its own, one request *)
(* after another; requests of different connections run concurrently.      *)
(* Each action below is one step of the request a connection is serving.   *)
(***************************************************************************)
EXTENDS Integers, Sequences, FiniteSets, TLC

\* The connections the server is serving; a request is identified by the
\* connection that carries it.
Requests == {"connA", "connB"}

\* How many requests arrive in all.
MaxRequests == 3

\* The number of requests that arrive in a run checked for termination.
MaxFairRequests == 2

\* The handles repositoryPool has constructed and not dropped.  A request
\* holds at most one, so one handle per connection lets Get always return;
\* Drop frees the name of a handle sync.Pool has discarded.
Handles == 1..Cardinality(Requests)
NoHandle == 0

\* ------------------------------------------------------------------------
\* Strings.  A header value is a sequence of lexemes, so that
\* strings.TrimPrefix has something to strip.
Bearer == "Bearer "

TrimPrefix(s, prefix) ==
    IF Len(s) >= 1 /\ s[1] = prefix THEN Tail(s) ELSE s

\* ------------------------------------------------------------------------
\* The identity provider (go-oidc verifier), an external collaborator: the
\* ID tokens it accepts, and the claims each carries.
IdTokens == {"idAlice", "idBob", "idUnverified", "idOpaque"}

ClaimsOf(t) ==
    CASE t = "idAlice"      -> [Email |-> "alice", Verified |-> TRUE,  parses |-> TRUE]
      [] t = "idBob"        -> [Email |-> "bob",   Verified |-> TRUE,  parses |-> TRUE]
      [] t = "idUnverified" -> [Email |-> "carol", Verified |-> FALSE, parses |-> TRUE]
      [] t = "idOpaque"     -> [Email |-> "",      Verified |-> FALSE, parses |-> FALSE]

ErrVerify == "oidc: failed to verify token"
ErrClaims == "oidc: failed to unmarshal claims"
ErrEmailNotVerified == "email not verified"
ErrDecode == "json: cannot decode body"
ErrDomain == "coa: repository error"
ErrMarshal == "json: unsupported value"
ErrWrite == "write: broken pipe"

\* verifier.Verify(ctx, token): an error unless the token is one the
\* provider issued for this client.
Verify(token) ==
    IF Len(token) = 1 /\ token[1] \in IdTokens
    THEN [err |-> "", idtoken |-> token[1]]
    ELSE [err |-> ErrVerify, idtoken |-> ""]

\* The Authorization header of a request: r.Header["Authorization"], the
\* sequence of values of the header (empty when the header is absent).
AuthHeaders ==
    {<<>>}
    \cup {<<v>> : v \in {<<>>, <<Bearer>>, <<"forged">>, <<Bearer, "forged">>}}
    \cup {<<v>> : v \in {<<t>> : t \in IdTokens}}
    \cup {<<v>> : v \in {<<Bearer, t>> : t \in IdTokens}}
    \cup {<< <<Bearer, "forged">>, <<Bearer, "idAlice">> >>}

\* user(r) without the test of claims.Verified.
userMissesVerifiedCheck(tokens) ==
    LET token == IF Len(tokens) >= 1 THEN TrimPrefix(tokens[1], Bearer) ELSE <<>>
        vr == Verify(token)
    IN  IF vr.err # "" THEN [user |-> "", err |-> vr.err]
        ELSE LET claims == ClaimsOf(vr.idtoken)
             IN  IF ~claims.parses THEN [user |-> "", err |-> ErrClaims]
                 ELSE [user |-> claims.Email, err |-> ""]

\* user(r): the Caller Identity of the request, or an error.
user(tokens) ==
    LET token == IF Len(tokens) >= 1 THEN TrimPrefix(tokens[1], Bearer) ELSE <<>>
        vr == Verify(token)
    IN  IF vr.err # "" THEN [user |-> "", err |-> vr.err]
        ELSE LET claims == ClaimsOf(vr.idtoken)
             IN  IF ~claims.parses THEN [user |-> "", err |-> ErrClaims]
                 ELSE IF ~claims.Verified
                      THEN [user |-> "", err |-> ErrEmailNotVerified]
                      ELSE [user |-> claims.Email, err |-> ""]

\* ------------------------------------------------------------------------
\* http.ResponseWriter: the header map (its Content-Type entry), whether the
\* status line and headers have been committed, what was committed, and the
\* chunks written to the body.
StatusOK == 200
StatusInternalServerError == 500

JSONType == "application/json"
TextType == "text/plain; charset=utf-8"

NewWriter ==
    [ctype |-> "", wroteHeader |-> FALSE, status |-> 0, sentCtype |-> "", body |-> <<>>]

HeaderSet(w, value) == [w EXCEPT !.ctype = value]

WriteHeader(w, code) ==
    IF w.wroteHeader THEN w
    ELSE [w EXCEPT !.wroteHeader = TRUE, !.status = code, !.sentCtype = w.ctype]

Write(w, chunk) ==
    LET c == WriteHeader(w, StatusOK)
    IN  [c EXCEPT !.body = Append(c.body, chunk)]

\* http.Error(w, msg, code)
httpError(w, msg, code) ==
    Write(WriteHeader(HeaderSet(w, TextType), code), msg)

\* check(err, w)
check(err, w) ==
    [failed |-> err # "", w |-> IF err # "" THEN httpError(w, err, StatusInternalServerError) ELSE w]

\* ------------------------------------------------------------------------
\* httprouter.Params: a sequence of <<key, value>>; ByName gives the value
\* of the first parameter with that key, and "" when there is none.
RECURSIVE ByName(_, _)
ByName(ps, name) ==
    IF ps = <<>> THEN ""
    ELSE IF ps[1][1] = name THEN ps[1][2]
    ELSE ByName(Tail(ps), name)

\* Values the router binds to :coa and :account (a segment is never empty).
CoaIds == {"c1"}
AccountIds == {"a1"}

\* The routes registered by main(): method, pattern, domain operation and
\* the parameters the router extracts from the path.
Routes ==
    {[method |-> "GET", pattern |-> "/charts-of-accounts",
      f |-> "chartsOfAccounts", ps |-> <<>>],
     [method |-> "POST", pattern |-> "/charts-of-accounts",
      f |-> "saveChartsOfAccounts", ps |-> <<>>]}
    \cup {[method |-> "GET", pattern |-> "/charts-of-accounts/:coa",
           f |-> "getChartOfAccounts", ps |-> << <<"coa", c>> >>] : c \in CoaIds}
    \cup {[method |-> "PUT", pattern |-> "/charts-of-accounts/:coa",
           f |-> "saveChartsOfAccounts", ps |-> << <<"coa", c>> >>] : c \in CoaIds}
    \cup {[method |-> "GET", pattern |-> "/charts-of-accounts/:coa/accounts",
           f |-> "accounts", ps |-> << <<"coa", c>> >>] : c \in CoaIds}
    \cup {[method |-> "POST", pattern |-> "/charts-of-accounts/:coa/accounts",
           f |-> "saveAccount", ps |-> << <<"coa", c>> >>] : c \in CoaIds}
    \cup {[method |-> "GET", pattern |-> "/charts-of-accounts/:coa/accounts/:account",
           f |-> "getAccount", ps |-> << <<"coa", c>>, <<"account", a>> >>]
          : c \in CoaIds, a \in AccountIds}
    \cup {[method |-> "PUT", pattern |-> "/charts-of-accounts/:coa/accounts/:account",
           f |-> "saveAccount", ps |-> << <<"coa", c>>, <<"account", a>> >>]
          : c \in CoaIds, a \in AccountIds}

\* ------------------------------------------------------------------------
\* Request bodies.  ok = FALSE is a body json cannot decode; otherwise the
\* body is an object whose "id" and owner fields are present when not "".
BodyIds == {"", "c1", "a1"}
BodyUsers == {"", "mallory"}

Bodies ==
    {[ok |-> FALSE, Id |-> "", User |-> ""]}
    \cup [ok : {TRUE}, Id : BodyIds, User : BodyUsers]

\* The bodies sent with a request of a route: anything with POST and PUT; with
\* GET, nothing json can decode or an object.
BodiesOf(route) ==
    IF route.method = "GET"
    THEN {b \in Bodies : ~b.ok \/ (b.Id = "c1" /\ b.User = "mallory")}
    ELSE Bodies

\* coa.ChartOfAccounts{} / coa.Account{}: the fields this layer stamps.
ZeroEntity == [Id |-> "", User |-> ""]

\* decoder: json.NewDecoder(r.Body).Decode(v) into the entity target.
decoder(body, target) ==
    IF ~body.ok THEN [err |-> ErrDecode, val |-> target]
    ELSE [err |-> "",
          val |-> [Id   |-> IF body.Id # "" THEN body.Id ELSE target.Id,
                   User |-> IF body.User # "" THEN body.User ELSE target.User]]

\* What the external repository (coa.CoaRepository over the plugin's store)
\* does with a call: returns a value, returns a nil value, returns an error,
\* or panics.
RepoOutcomes == {"value", "nil", "error", "panic"}

\* One call of the repository: the operation, its arguments, and the caller
\* identity the store reads through the &r.user slot it was built with.
RepoCall(op, coa, account, entity, slot) ==
    [op |-> op, coa |-> coa, account |-> account, entity |-> entity, storeUser |-> slot]

\* What a domain operation hands back to handler(): the repository calls it
\* made, how many times it ran the decoder, and the (interface{}, error)
\* pair it returned, or that it panicked.
RepoReturn(call, decoded, out) ==
    [calls   |-> <<call>>,
     decoded |-> decoded,
     v       |-> IF out = "value" THEN "value" ELSE "nil",
     err     |-> IF out = "error" THEN ErrDomain ELSE "",
     panics  |-> out = "panic"]

DecodeFailure(err) ==
    [calls |-> <<>>, decoded |-> 1, v |-> "nil", err |-> err, panics |-> FALSE]

\* The six domain operations.  cruser is cr.user while the operation runs,
\* ps the path parameters, body the request body behind the decoder, out
\* what the repository does with the call.
chartsOfAccounts(cruser, ps, body, out) ==
    RepoReturn(RepoCall("AllChartsOfAccounts", "", "", ZeroEntity, cruser), 0, out)

getChartOfAccounts(cruser, ps, body, out) ==
    RepoReturn(RepoCall("GetChartOfAccounts", ByName(ps, "coa"), "", ZeroEntity, cruser),
               0, out)

\* saveChartsOfAccounts without c.User = cr.user.
saveChartsOfAccountsKeepsOwner(cruser, ps, body, out) ==
    LET d == decoder(body, ZeroEntity)
        c1 == d.val
        c2 == IF ByName(ps, "coa") # "" THEN [c1 EXCEPT !.Id = ByName(ps, "coa")] ELSE c1
    IN  IF d.err # "" THEN DecodeFailure(d.err)
        ELSE RepoReturn(RepoCall("SaveChartOfAccounts", "", "", c2, cruser), 1, out)

\* saveChartsOfAccounts that goes on after the decoder failed.
saveChartsOfAccountsIgnoresDecodeError(cruser, ps, body, out) ==
    LET d == decoder(body, ZeroEntity)
        c1 == d.val
        c2 == IF ByName(ps, "coa") # "" THEN [c1 EXCEPT !.Id = ByName(ps, "coa")] ELSE c1
        c3 == [c2 EXCEPT !.User = cruser]
    IN  RepoReturn(RepoCall("SaveChartOfAccounts", "", "", c3, cruser), 1, out)

\* saveChartsOfAccounts(cr, ps, d)
saveChartsOfAccounts(cruser, ps, body, out) ==
    LET d == decoder(body, ZeroEntity)
        c1 == d.val
        c2 == IF ByName(ps, "coa") # "" THEN [c1 EXCEPT !.Id = ByName(ps, "coa")] ELSE c1
        c3 == [c2 EXCEPT !.User = cruser]
    IN  IF d.err # "" THEN DecodeFailure(d.err)
        ELSE RepoReturn(RepoCall("SaveChartOfAccounts", "", "", c3, cruser), 1, out)

accounts(cruser, ps, body, out) ==
    RepoReturn(RepoCall("AllAccounts", ByName(ps, "coa"), "", ZeroEntity, cruser), 0, out)

\* getAccount that decodes the body before it asks the repository.
getAccountDecodesBody(cruser, ps, body, out) ==
    LET d == decoder(body, ZeroEntity)
    IN  IF d.err # "" THEN DecodeFailure(d.err)
        ELSE RepoReturn(RepoCall("GetAccount", ByName(ps, "coa"), ByName(ps, "account"),
                                 ZeroEntity, cruser),
                        1, out)

\* getAccount(cr, ps, _)
getAccount(cruser, ps, body, out) ==
    RepoReturn(RepoCall("GetAccount", ByName(ps, "coa"), ByName(ps, "account"),
                        ZeroEntity, cruser),
               0, out)

\* saveAccount that falls back on the chart's path id when the path has no
\* account id.
saveAccountIdFromCoa(cruser, ps, body, out) ==
    LET d == decoder(body, ZeroEntity)
        a1 == d.val
        a2 == IF ByName(ps, "account") # ""
              THEN [a1 EXCEPT !.Id = ByName(ps, "account")]
              ELSE [a1 EXCEPT !.Id = ByName(ps, "coa")]
        a3 == [a2 EXCEPT !.User = cruser]
    IN  IF d.err # "" THEN DecodeFailure(d.err)
        ELSE RepoReturn(RepoCall("SaveAccount", ByName(ps, "coa"), "", a3, cruser), 1, out)

\* saveAccount that overwrites the id only when the body has none.
saveAccountKeepsBodyId(cruser, ps, body, out) ==
    LET d == decoder(body, ZeroEntity)
        a1 == d.val
        a2 == IF ByName(ps, "account") # "" /\ a1.Id = ""
              THEN [a1 EXCEPT !.Id = ByName(ps, "account")] ELSE a1
        a3 == [a2 EXCEPT !.User = cruser]
    IN  IF d.err # "" THEN DecodeFailure(d.err)
        ELSE RepoReturn(RepoCall("SaveAccount", ByName(ps, "coa"), "", a3, cruser), 1, out)

\* saveAccount(cr, ps, d)
saveAccount(cruser, ps, body, out) ==
    LET d == decoder(body, ZeroEntity)
        a1 == d.val
        a2 == IF ByName(ps, "account") # ""
              THEN [a1 EXCEPT !.Id = ByName(ps, "account")] ELSE a1
        a3 == [a2 EXCEPT !.User = cruser]
    IN  IF d.err # "" THEN DecodeFailure(d.err)
        ELSE RepoReturn(RepoCall("SaveAccount", ByName(ps, "coa"), "", a3, cruser), 1, out)

\* handler(f): the domain operation a route was registered with.
Apply(f, cruser, ps, body, out) ==
    CASE f = "chartsOfAccounts"     -> chartsOfAccounts(cruser, ps, body, out)
      [] f = "getChartOfAccounts"   -> getChartOfAccounts(cruser, ps, body, out)
      [] f = "saveChartsOfAccounts" -> saveChartsOfAccounts(cruser, ps, body, out)
      [] f = "accounts"             -> accounts(cruser, ps, body, out)
      [] f = "getAccount"           -> getAccount(cruser, ps, body, out)
      [] f = "saveAccount"          -> saveAccount(cruser, ps, body, out)

\* json.NewEncoder(w).Encode(v): marshal v, then write the bytes to w.
\* enc is what happens: "ok", "marshal" (v cannot be marshalled, nothing is
\* written) or "write" (w.Write commits the header, sends part of the bytes
\* and fails).
EncodeOutcomes == {"ok", "marshal", "write"}

Encode(w, enc) ==
    CASE enc = "ok"      -> [w |-> Write(w, "json"), err |-> ""]
      [] enc = "marshal" -> [w |-> w, err |-> ErrMarshal]
      [] enc = "write"   -> [w |-> Write(w, "json (cut short)"), err |-> ErrWrite]

\* handler(), lines 58-61: whether handler hands v to the JSON encoder.
serializes(v, err) == err = "" /\ v # "nil"

\* respond without the test v != nil.
respondEncodesNil(w, v, err, enc) ==
    LET c == check(err, w)
    IN  IF c.failed THEN c.w
        ELSE LET e == Encode(HeaderSet(c.w, JSONType), IF enc = "" THEN "ok" ELSE enc)
             IN  check(e.err, e.w).w

\* handler(), lines 58-64: what it writes once the domain operation returned
\* (v, err).
respond(w, v, err, enc) ==
    LET c == check(err, w)
    IN  IF c.failed THEN c.w
        ELSE IF v # "nil"
             THEN LET e == Encode(HeaderSet(c.w, JSONType), enc)
                  IN  check(e.err, e.w).w
             ELSE c.w

\* ------------------------------------------------------------------------
\* State.
VARIABLES
    pc,        \* where each request's goroutine is in handler()
    caller,    \* handler's local `user`: the Caller Identity of the request
    cr,        \* handler's local `cr`: the handle the request got from the pool
    v,         \* handler's local `v`: "nil" or "value"
    err,       \* handler's local `err` after the domain operation returned
    w,         \* the request's http.ResponseWriter
    acquires,  \* how many times the request returned from repositoryPool.Get
    releases,  \* how many times the request called repositoryPool.Put
    invoked,   \* how many times the request called its domain operation
    repo,      \* how many repository calls the request's domain operation made
    idle,      \* repositoryPool: the handles Put and not handed out again
    live,      \* the handles repositoryPool.New constructed, not dropped since
    huser,     \* the user field of each handle (the slot its store reads)
    arrivals,  \* how many requests have arrived so far
    put,       \* the handle the request passed to repositoryPool.Put last
    ev         \* what the last step read of its request, and what came of it

vars == <<pc, caller, cr, v, err, w, acquires, releases, invoked, repo,
          idle, live, huser, arrivals, put, ev>>

NoRoute == [method |-> "", pattern |-> "", f |-> "", ps |-> <<>>]
NoBody == [ok |-> FALSE, Id |-> "", User |-> ""]
NoResult == [calls |-> <<>>, decoded |-> 0, v |-> "nil", err |-> "", panics |-> FALSE]

Event(kind, r, tokens, route, body, res, enc) ==
    [kind |-> kind, req |-> r, tokens |-> tokens, route |-> route, body |-> body,
     res |-> res, enc |-> enc]

\* A step that reads nothing of the request.
NoEvent == Event("", "", <<>>, NoRoute, NoBody, NoResult, "")

Init ==
    /\ pc = [r \in Requests |-> "Idle"]
    /\ caller = [r \in Requests |-> ""]
    /\ cr = [r \in Requests |-> NoHandle]
    /\ v = [r \in Requests |-> "nil"]
    /\ err = [r \in Requests |-> ""]
    /\ w = [r \in Requests |-> NewWriter]
    /\ acquires = [r \in Requests |-> 0]
    /\ releases = [r \in Requests |-> 0]
    /\ invoked = [r \in Requests |-> 0]
    /\ repo = [r \in Requests |-> 0]
    /\ idle = {}
    /\ live = {}
    /\ huser = [h \in Handles |-> ""]
    /\ arrivals = 0
    /\ put = [r \in Requests |-> NoHandle]
    /\ ev = NoEvent

\* Authenticate without the return after a failed check: the error is
\* written and the handler goes on.
AuthenticateFallsThrough(r) ==
    /\ pc[r] = "Unauthenticated"
    /\ \E tokens \in AuthHeaders :
         LET a == user(tokens)
             c == check(a.err, w[r])
         IN  /\ pc' = [pc EXCEPT ![r] = "Authenticated"]
             /\ caller' = [caller EXCEPT ![r] = a.user]
             /\ w' = [w EXCEPT ![r] = c.w]
             /\ ev' = Event("authenticate", r, tokens, NoRoute, NoBody, NoResult, "")
    /\ UNCHANGED <<cr, v, err, acquires, releases, invoked, repo, idle, live, huser,
                   arrivals, put>>

\* Authenticate with the identity kept in one place that all handles share,
\* written as soon as user() returns.
AuthenticateWritesSharedUser(r) ==
    /\ pc[r] = "Unauthenticated"
    /\ \E tokens \in AuthHeaders :
         LET a == user(tokens)
             c == check(a.err, w[r])
         IN  /\ pc' = [pc EXCEPT ![r] = IF c.failed THEN "Rejected" ELSE "Authenticated"]
             /\ caller' = [caller EXCEPT ![r] = a.user]
             /\ w' = [w EXCEPT ![r] = c.w]
             /\ huser' = [h \in Handles |-> IF h \in live THEN a.user ELSE huser[h]]
             /\ ev' = Event("authenticate", r, tokens, NoRoute, NoBody, NoResult, "")
    /\ UNCHANGED <<cr, v, err, acquires, releases, invoked, repo, idle, live,
                   arrivals, put>>

\* handler(), lines 48-51: user, err := user(r); if check(err, w) { return }
Authenticate(r) ==
    /\ pc[r] = "Unauthenticated"
    /\ \E tokens \in AuthHeaders :
         LET a == user(tokens)
             c == check(a.err, w[r])
         IN  /\ pc' = [pc EXCEPT ![r] = IF c.failed THEN "Rejected" ELSE "Authenticated"]
             /\ caller' = [caller EXCEPT ![r] = a.user]
             /\ w' = [w EXCEPT ![r] = c.w]
             /\ ev' = Event("authenticate", r, tokens, NoRoute, NoBody, NoResult, "")
    /\ UNCHANGED <<cr, v, err, acquires, releases, invoked, repo, idle, live, huser, arrivals, put>>

\* handler(), line 52: repositoryPool.Get() hands out a handle that was Put.
GetIdle(r) ==
    /\ pc[r] = "Authenticated"
    /\ \E h \in idle :
         /\ idle' = idle \ {h}
         /\ cr' = [cr EXCEPT ![r] = h]
         /\ ev' = NoEvent
    /\ pc' = [pc EXCEPT ![r] = "Acquired"]
    /\ acquires' = [acquires EXCEPT ![r] = @ + 1]
    /\ UNCHANGED <<caller, v, err, w, releases, invoked, repo, live, huser, arrivals, put>>

\* handler(), line 52, and repositoryPool.New, lines 31-39: Get finds nothing
\* it wants to hand out and constructs a handle; its user field is empty.
GetNew(r) ==
    /\ pc[r] = "Authenticated"
    /\ \E h \in Handles \ live :
         /\ \A g \in Handles \ live : h <= g
         /\ live' = live \cup {h}
         /\ huser' = [huser EXCEPT ![h] = ""]
         /\ cr' = [cr EXCEPT ![r] = h]
    /\ ev' = NoEvent
    /\ pc' = [pc EXCEPT ![r] = "Acquired"]
    /\ acquires' = [acquires EXCEPT ![r] = @ + 1]
    /\ UNCHANGED <<caller, v, err, w, releases, invoked, repo, idle, arrivals, put>>

\* New panics, but the handle it was constructing is left in the pool.
GetNewPanicsLeavesHandle(r) ==
    /\ pc[r] = "Authenticated"
    /\ \E h \in Handles \ live :
         /\ live' = live \cup {h}
         /\ idle' = idle \cup {h}
    /\ pc' = [pc EXCEPT ![r] = "PoolPanic"]
    /\ ev' = NoEvent
    /\ UNCHANGED <<caller, cr, v, err, w, acquires, releases, invoked, repo,
                   huser, arrivals, put>>

\* repositoryPool.New, lines 33-36: the backend provider fails and New
\* panics; Get does not return.
GetNewPanics(r) ==
    /\ pc[r] = "Authenticated"
    /\ pc' = [pc EXCEPT ![r] = "PoolPanic"]
    /\ ev' = NoEvent
    /\ UNCHANGED <<caller, cr, v, err, w, acquires, releases, invoked, repo,
                   idle, live, huser, arrivals, put>>

\* Bind without the assignment cr.user = user.
BindSkipsUser(r) ==
    /\ pc[r] = "Acquired"
    /\ pc' = [pc EXCEPT ![r] = "ResourceBound"]
    /\ ev' = NoEvent
    /\ UNCHANGED <<caller, cr, v, err, w, acquires, releases, invoked, repo, idle, live,
                   huser, arrivals, put>>

\* Bind with the Put not deferred: the handle goes back to the pool at once.
BindThenPut(r) ==
    /\ pc[r] = "Acquired"
    /\ huser' = [huser EXCEPT ![cr[r]] = caller[r]]
    /\ idle' = idle \cup {cr[r]}
    /\ pc' = [pc EXCEPT ![r] = "ResourceBound"]
    /\ ev' = NoEvent
    /\ UNCHANGED <<caller, cr, v, err, w, acquires, releases, invoked, repo, live,
                   arrivals, put>>

\* handler(), lines 53-54: cr.user = user; defer repositoryPool.Put(cr)
Bind(r) ==
    /\ pc[r] = "Acquired"
    /\ huser' = [huser EXCEPT ![cr[r]] = caller[r]]
    /\ pc' = [pc EXCEPT ![r] = "ResourceBound"]
    /\ ev' = NoEvent
    /\ UNCHANGED <<caller, cr, v, err, w, acquires, releases, invoked, repo, idle, live, arrivals, put>>

\* handler(), lines 55-57: v, err := f(cr, ps, decoder) for the route the
\* request was matched to.
Dispatch(r) ==
    /\ pc[r] = "ResourceBound"
    /\ \E route \in Routes, out \in RepoOutcomes : \E body \in BodiesOf(route) :
         LET res == Apply(route.f, huser[cr[r]], route.ps, body, out)
         IN  /\ pc' = [pc EXCEPT ![r] = IF res.panics THEN "Panicking" ELSE "Dispatched"]
             /\ v' = [v EXCEPT ![r] = res.v]
             /\ err' = [err EXCEPT ![r] = res.err]
             /\ invoked' = [invoked EXCEPT ![r] = @ + 1]
             /\ repo' = [repo EXCEPT ![r] = @ + Len(res.calls)]
             /\ ev' = Event("dispatch", r, <<>>, route, body, res, "")
    /\ UNCHANGED <<caller, cr, w, acquires, releases, idle, live, huser, arrivals, put>>

\* Respond with the Put at the end of the function instead of deferred: the
\* early return after a failed check skips it.
RespondLeaksOnError(r) ==
    /\ pc[r] = "Dispatched"
    /\ \E enc \in (IF serializes(v[r], err[r]) THEN EncodeOutcomes ELSE {""}) :
         /\ w' = [w EXCEPT ![r] = respond(w[r], v[r], err[r], enc)]
         /\ ev' = Event("respond", r, <<>>, NoRoute, NoBody, NoResult, enc)
    /\ pc' = [pc EXCEPT ![r] = IF err[r] # "" THEN "Responded" ELSE "Returning"]
    /\ UNCHANGED <<caller, cr, v, err, acquires, releases, invoked, repo, idle, live,
                   huser, arrivals, put>>

\* handler(), lines 58-64: the error response, or the JSON of v.
Respond(r) ==
    /\ pc[r] = "Dispatched"
    /\ \E enc \in (IF serializes(v[r], err[r]) THEN EncodeOutcomes ELSE {""}) :
         /\ w' = [w EXCEPT ![r] = respond(w[r], v[r], err[r], enc)]
         /\ ev' = Event("respond", r, <<>>, NoRoute, NoBody, NoResult, enc)
    /\ pc' = [pc EXCEPT ![r] = "Returning"]
    /\ UNCHANGED <<caller, cr, v, err, acquires, releases, invoked, repo, idle, live, huser, arrivals, put>>

\* handler(), lines 62-63: the content type is set and json.NewEncoder(w)
\* .Encode(v) panics (a MarshalJSON of the value, the ResponseWriter) before
\* it writes anything.
RespondPanics(r) ==
    /\ pc[r] = "Dispatched"
    /\ serializes(v[r], err[r])
    /\ w' = [w EXCEPT ![r] = HeaderSet(w[r], JSONType)]
    /\ pc' = [pc EXCEPT ![r] = "Panicking"]
    /\ ev' = NoEvent
    /\ UNCHANGED <<caller, cr, v, err, acquires, releases, invoked, repo, idle, live,
                   huser, arrivals, put>>

\* Put called twice: deferred, and once more before the return.
PutTwice(r) ==
    /\ pc[r] \in {"Returning", "Panicking"}
    /\ idle' = idle \cup {cr[r]}
    /\ releases' = [releases EXCEPT ![r] = @ + 2]
    /\ put' = [put EXCEPT ![r] = cr[r]]
    /\ pc' = [pc EXCEPT ![r] = IF pc[r] = "Returning" THEN "Responded" ELSE "Aborted"]
    /\ ev' = NoEvent
    /\ UNCHANGED <<caller, cr, v, err, w, acquires, invoked, repo, live, huser, arrivals>>

\* Put skipped when a panic unwinds the handler.
PutSkippedOnPanic(r) ==
    /\ pc[r] \in {"Returning", "Panicking"}
    /\ idle' = IF pc[r] = "Returning" THEN idle \cup {cr[r]} ELSE idle
    /\ releases' = [releases EXCEPT ![r] = IF pc[r] = "Returning" THEN @ + 1 ELSE @]
    /\ put' = [put EXCEPT ![r] = IF pc[r] = "Returning" THEN cr[r] ELSE @]
    /\ pc' = [pc EXCEPT ![r] = IF pc[r] = "Returning" THEN "Responded" ELSE "Aborted"]
    /\ ev' = NoEvent
    /\ UNCHANGED <<caller, cr, v, err, w, acquires, invoked, repo, live, huser, arrivals>>

\* Put as a plain call at the end of the function instead of deferred: a
\* panic of the domain operation never reaches it.
PutOnlyOnReturn(r) ==
    /\ pc[r] = "Returning"
    /\ idle' = idle \cup {cr[r]}
    /\ releases' = [releases EXCEPT ![r] = @ + 1]
    /\ put' = [put EXCEPT ![r] = cr[r]]
    /\ pc' = [pc EXCEPT ![r] = "Responded"]
    /\ ev' = NoEvent
    /\ UNCHANGED <<caller, cr, v, err, w, acquires, invoked, repo, live, huser, arrivals>>

\* Put called right after the domain operation returned, before the response
\* is written.
PutBeforeResponse(r) ==
    /\ pc[r] \in {"Dispatched", "Returning", "Panicking"}
    /\ idle' = idle \cup {cr[r]}
    /\ releases' = [releases EXCEPT ![r] = @ + 1]
    /\ put' = [put EXCEPT ![r] = cr[r]]
    /\ pc' = [pc EXCEPT ![r] = IF pc[r] = "Panicking" THEN "Aborted" ELSE "Responded"]
    /\ ev' = NoEvent
    /\ UNCHANGED <<caller, cr, v, err, w, acquires, invoked, repo, live, huser, arrivals>>

\* handler(), line 54: the deferred repositoryPool.Put(cr) runs when the
\* function returns, and when a panic of the domain operation or of the
\* encoder unwinds it.
Put(r) ==
    /\ pc[r] \in {"Returning", "Panicking"}
    /\ idle' = idle \cup {cr[r]}
    /\ releases' = [releases EXCEPT ![r] = @ + 1]
    /\ put' = [put EXCEPT ![r] = cr[r]]
    /\ pc' = [pc EXCEPT ![r] = IF pc[r] = "Returning" THEN "Responded" ELSE "Aborted"]
    /\ ev' = NoEvent
    /\ UNCHANGED <<caller, cr, v, err, w, acquires, invoked, repo, live, huser, arrivals>>

\* net/http: a request arrives on a connection that is serving none: its
\* first, or the next after handler() returned (a panic closes the
\* connection).  The request has a ResponseWriter of its own.
Arrive(r) ==
    /\ pc[r] \in {"Idle", "Rejected", "Responded"}
    /\ arrivals < MaxRequests
    /\ arrivals' = arrivals + 1
    /\ pc' = [pc EXCEPT ![r] = "Unauthenticated"]
    /\ caller' = [caller EXCEPT ![r] = ""]
    /\ cr' = [cr EXCEPT ![r] = NoHandle]
    /\ v' = [v EXCEPT ![r] = "nil"]
    /\ err' = [err EXCEPT ![r] = ""]
    /\ w' = [w EXCEPT ![r] = NewWriter]
    /\ acquires' = [acquires EXCEPT ![r] = 0]
    /\ releases' = [releases EXCEPT ![r] = 0]
    /\ invoked' = [invoked EXCEPT ![r] = 0]
    /\ repo' = [repo EXCEPT ![r] = 0]
    /\ put' = [put EXCEPT ![r] = NoHandle]
    /\ ev' = NoEvent
    /\ UNCHANGED <<idle, live, huser>>

\* sync.Pool drops an idle handle (its caches are cleared at garbage
\* collection); nothing refers to the handle any more.
Drop(h) ==
    /\ h \in idle
    /\ idle' = idle \ {h}
    /\ live' = live \ {h}
    /\ huser' = [huser EXCEPT ![h] = ""]
    /\ ev' = NoEvent
    /\ UNCHANGED <<pc, caller, cr, v, err, w, acquires, releases, invoked, repo,
                   arrivals, put>>

Next ==
    \/ \E h \in Handles : Drop(h)
    \/ \E r \in Requests :
        \/ Arrive(r)
        \/ Authenticate(r)
        \/ GetIdle(r)
        \/ GetNew(r)
        \/ GetNewPanics(r)
        \/ Bind(r)
        \/ Dispatch(r)
        \/ Respond(r)
        \/ RespondPanics(r)
        \/ Put(r)

Spec == Init /\ [][Next]_vars

\* net/http serves each connection in a goroutine of its own, and handler()
\* has no loop and waits for nothing but the calls it makes: a request that
\* can take its next step takes it.  Arrivals and sync.Pool dropping idle
\* handles are not obliged to happen.
HandlerStep(r) ==
    \/ Authenticate(r)
    \/ GetIdle(r)
    \/ GetNew(r)
    \/ GetNewPanics(r)
    \/ Bind(r)
    \/ Dispatch(r)
    \/ Respond(r)
    \/ RespondPanics(r)
    \/ Put(r)

\* The steps of handler() other than the call of f.
HandlerStepAroundCall(r) ==
    \/ Authenticate(r)
    \/ GetIdle(r)
    \/ GetNew(r)
    \/ GetNewPanics(r)
    \/ Bind(r)
    \/ Respond(r)
    \/ RespondPanics(r)
    \/ Put(r)

\* handler(), line 55: the call of f is over, returned or panicked.  This is
\* Dispatch(r) seen through its guard and its counter: Dispatch(r) is enabled
\* exactly when its guard holds, and a step of the program is a Dispatch(r)
\* step exactly when it raises invoked[r].
CallOver(r) ==
    /\ pc[r] = "ResourceBound"
    /\ invoked' = [invoked EXCEPT ![r] = @ + 1]

\* The same program serving at most MaxFairRequests requests.
FairNext ==
    \/ \E h \in Handles : Drop(h)
    \/ \E r \in Requests :
        \/ arrivals < MaxFairRequests /\ Arrive(r)
        \/ HandlerStep(r)

\* Every request that can take a step of handler() takes it: weak fairness
\* of the steps around the call, and of the call being over.
FairSpec ==
    /\ Init /\ [][FairNext]_vars
    /\ \A r \in Requests :
          WF_vars(HandlerStepAroundCall(r)) /\ WF_invoked(CallOver(r))

\* ------------------------------------------------------------------------
\* Vocabulary of the properties.

\* A request holds a handle from the return of Get to its Put.
Holding(r) ==
    pc[r] \in {"Acquired", "ResourceBound", "Dispatched", "Panicking", "Returning"}

\* The credential user() verifies: the first value of the Authorization
\* header without its scheme, the empty credential when there is no header.
Credential(tokens) ==
    IF tokens = <<>> THEN <<>> ELSE TrimPrefix(tokens[1], Bearer)

MissingCredential(tokens) == tokens = <<>>

FailsVerification(tokens) == Verify(Credential(tokens)).err # ""

UnverifiedEmail(tokens) ==
    /\ Verify(Credential(tokens)).err = ""
    /\ ClaimsOf(Verify(Credential(tokens)).idtoken).parses
    /\ ~ClaimsOf(Verify(Credential(tokens)).idtoken).Verified

\* A failure response: status 500 and the error's message as the body.
FailureResponse(x) ==
    /\ x.wroteHeader
    /\ x.status = StatusInternalServerError
    /\ Len(x.body) = 1

SaveOps == {"SaveChartOfAccounts", "SaveAccount"}

\* The request r has just called its domain operation.
Dispatching(r) == ev.kind = "dispatch" /\ ev.req = r

\* The request r has just run user() on its header.
Authenticating(r) == ev.kind = "authenticate" /\ ev.req = r

\* ------------------------------------------------------------------------
\* The state part of C1: a request whose credential is missing, fails
\* verification, or verifies with email_verified = false is rejected by the
\* authentication step; a rejected request has a failure response, holds no
\* handle and has invoked no domain operation.
C1_Rejected ==
    \A r \in Requests :
        /\ (Authenticating(r)
              /\ (\/ MissingCredential(ev.tokens)
                  \/ FailsVerification(ev.tokens)
                  \/ UnverifiedEmail(ev.tokens)))
           => pc[r] = "Rejected"
        /\ pc[r] = "Rejected"
           => /\ invoked[r] = 0
              /\ repo[r] = 0
              /\ acquires[r] = 0
              /\ FailureResponse(w[r])

\* The step part of C1: a rejected request takes no further step; the next
\* thing on its connection is the arrival of another request.
C1_RejectedStays ==
    \A r \in Requests :
        pc[r] = "Rejected"
        => \/ pc'[r] = "Rejected" /\ invoked'[r] = 0 /\ w'[r] = w[r]
           \/ pc'[r] = "Unauthenticated" /\ arrivals' = arrivals + 1

\* C1 (fail-closed authentication).  A request whose credential is missing,
\* fails verification, or verifies with email_verified = false never has a
\* domain operation invoked for it, and its response is a failure response.
C1_FailClosed == []C1_Rejected /\ [][C1_RejectedStays]_vars

\* Witness of C1: a request without Authorization header has been rejected.
C1_Witness ==
    \E r \in Requests :
        /\ Authenticating(r)
        /\ MissingCredential(ev.tokens)
        /\ pc[r] = "Rejected"
        /\ FailureResponse(w[r])

\* ------------------------------------------------------------------------
\* C2 (no cross-user leakage).  From the binding to the Put, the user field
\* of the handle a request holds is the request's own Caller Identity; and
\* every repository call of a domain operation reads, through the store's
\* slot, the Caller Identity of the request that made it.
C2_NoLeak ==
    \A r \in Requests :
        /\ pc[r] \in {"ResourceBound", "Dispatched", "Panicking", "Returning"}
           => huser[cr[r]] = caller[r]
        /\ Dispatching(r)
           => \A i \in 1..Len(ev.res.calls) : ev.res.calls[i].storeUser = caller[r]

\* Witness of C2: a request calls the repository with a handle that another
\* connection's request, of a different caller, used and returned before.
C2_Witness ==
    \E r, q \in Requests :
        /\ r # q
        /\ Dispatching(r)
        /\ Len(ev.res.calls) = 1
        /\ ev.res.calls[1].storeUser = caller[r]
        /\ pc[q] = "Responded"
        /\ put[q] = cr[r]
        /\ caller[q] # caller[r]

\* ------------------------------------------------------------------------
\* C3 (exclusive lending).  No two requests hold the same handle, and a handle
\* a request holds is not in the pool for Get to hand out.
C3_Exclusive ==
    \A r \in Requests :
        Holding(r)
        => /\ cr[r] \in live
           /\ cr[r] \notin idle
           /\ \A q \in Requests \ {r} : Holding(q) => cr[q] # cr[r]

\* Witness of C3: two requests in flight, each holding a handle, the second
\* one a handle that a finished request had returned to the pool.
C3_Witness ==
    \E r, q \in Requests :
        /\ r # q
        /\ pc[r] = "Dispatched"
        /\ pc[q] = "ResourceBound"
        /\ cr[r] # cr[q]
        /\ arrivals >= 3
        /\ huser[cr[q]] = caller[q]

\* ------------------------------------------------------------------------
\* C4 (balanced acquire/release).  A request releases only the handle it
\* acquired, never more than once, and not before its handler is done; once
\* its handler has returned, with a result or with an error, it has released
\* that handle exactly once.
C4_Balanced ==
    \A r \in Requests :
        /\ acquires[r] \in {0, 1}
        /\ releases[r] <= acquires[r]
        /\ Holding(r) => acquires[r] = 1 /\ releases[r] = 0
        /\ pc[r] = "Responded"
           => acquires[r] = 1 /\ releases[r] = 1 /\ put[r] = cr[r]

\* Witness of C4: the domain operation returned an error, and the handle has
\* been released once.
C4_Witness ==
    \E r \in Requests :
        /\ pc[r] = "Responded"
        /\ err[r] = ErrDomain
        /\ acquires[r] = 1
        /\ releases[r] = 1

\* ------------------------------------------------------------------------
\* C5, as claimed: whatever terminal state a request reaches (success,
\* handler failure, or the error state reached from authentication failure),
\* it has released exactly once.
C5_ReleaseOnceInEveryTerminalState ==
    \A r \in Requests :
        pc[r] \in {"Responded", "Rejected"} => releases[r] = 1

\* C5, amended: a request that ends in success or in handler failure has
\* released exactly once; a request rejected by authentication acquired no
\* handle and has released none.
C5_ReleaseOncePerAcquiringRequest ==
    \A r \in Requests :
        /\ pc[r] = "Responded" => releases[r] = 1
        /\ pc[r] = "Rejected" => releases[r] = 0 /\ acquires[r] = 0 /\ cr[r] = NoHandle

\* Witness of C5: one request ended rejected with no release while another
\* ended responded with one.
C5_Witness ==
    \E r, q \in Requests :
        /\ pc[r] = "Rejected" /\ releases[r] = 0
        /\ pc[q] = "Responded" /\ releases[q] = 1

\* ------------------------------------------------------------------------
\* C6 (owner stamping).  The entity a save operation passes to the repository
\* has the Caller Identity of the request as its owner.
C6_OwnerStamped ==
    \A r \in Requests :
        Dispatching(r)
        => \A i \in 1..Len(ev.res.calls) :
               ev.res.calls[i].op \in SaveOps
               => ev.res.calls[i].entity.User = caller[r]

\* Witness of C6: a save whose body names another owner reached the
\* repository, with a handle that a request of another caller had used.
C6_Witness ==
    \E r, q \in Requests :
        /\ r # q
        /\ Dispatching(r)
        /\ ev.body.ok /\ ev.body.User = "mallory"
        /\ Len(ev.res.calls) = 1
        /\ ev.res.calls[1].op \in SaveOps
        /\ ev.res.calls[1].entity.User = caller[r]
        /\ put[q] = cr[r]
        /\ caller[q] \notin {"", caller[r]}

\* ------------------------------------------------------------------------
\* The id a route's path gives the entity itself: the chart id for a chart
\* route, the account id for an account route.
PathId(route) ==
    IF route.f = "saveChartsOfAccounts" THEN ByName(route.ps, "coa")
    ELSE ByName(route.ps, "account")

\* C7 (path id is authoritative on PUT).  For a PUT with a decodable body, the
\* entity passed to the repository has the id of the path: the chart id for
\* PUT chart, the account id for PUT account, whatever id the body carries.
C7_PathIdOnPut ==
    \A r \in Requests :
        (Dispatching(r) /\ ev.route.method = "PUT" /\ ev.body.ok)
        => /\ PathId(ev.route) # ""
           /\ Len(ev.res.calls) = 1
           /\ ev.res.calls[1].op \in SaveOps
           /\ ev.res.calls[1].entity.Id = PathId(ev.route)

\* Witness of C7: a PUT account whose body carries another id.
C7_Witness ==
    \E r \in Requests :
        /\ Dispatching(r)
        /\ ev.route.method = "PUT"
        /\ ev.route.f = "saveAccount"
        /\ ev.body.ok
        /\ ev.body.Id \notin {"", PathId(ev.route)}
        /\ ev.res.calls[1].entity.Id = PathId(ev.route)

\* ------------------------------------------------------------------------
\* C8 (a verified signature is not sufficient).  A credential that verifies
\* but carries email_verified = false is rejected with "email not verified":
\* the request has no Caller Identity and acquires no handle.
C8_EmailNotVerified ==
    \A r \in Requests :
        (Authenticating(r) /\ UnverifiedEmail(ev.tokens))
        => /\ pc[r] = "Rejected"
           /\ caller[r] = ""
           /\ w[r].status = StatusInternalServerError
           /\ w[r].body = <<ErrEmailNotVerified>>
           /\ acquires[r] = 0
           /\ cr[r] = NoHandle

\* Witness of C8: a Bearer token of an unverified email has been rejected.
C8_Witness ==
    \E r \in Requests :
        /\ Authenticating(r)
        /\ ev.tokens = << <<Bearer, "idUnverified">> >>
        /\ pc[r] = "Rejected"
        /\ w[r].body = <<ErrEmailNotVerified>>

\* ------------------------------------------------------------------------
\* C9 (decode failure precedes the repository).  A save whose body cannot be
\* decoded makes no repository call and returns the decoder's error; the
\* request then answers with a failure response and releases its handle.
C9_DecodeFailure ==
    \A r \in Requests :
        /\ (Dispatching(r) /\ ev.route.f \in {"saveChartsOfAccounts", "saveAccount"}
              /\ ~ev.body.ok)
           => /\ ev.res.calls = <<>>
              /\ pc[r] = "Dispatched"
              /\ err[r] = ErrDecode
        /\ err[r] = ErrDecode
           => /\ repo[r] = 0
              /\ pc[r] \in {"Dispatched", "Returning", "Responded"}
              /\ pc[r] \in {"Returning", "Responded"}
                 => FailureResponse(w[r]) /\ w[r].body = <<ErrDecode>>
              /\ pc[r] = "Responded" => releases[r] = 1 /\ put[r] = cr[r]

\* Witness of C9: a request whose body could not be decoded has answered and
\* released its handle.
C9_Witness ==
    \E r \in Requests :
        /\ pc[r] = "Responded"
        /\ err[r] = ErrDecode
        /\ repo[r] = 0
        /\ invoked[r] = 1
        /\ releases[r] = 1

\* ------------------------------------------------------------------------
\* Success output of a response: the committed JSON content type, or JSON
\* bytes in the body.  Error output: the failure status, or an error message
\* in the body.
IsJSONChunk(chunk) == chunk \in {"json", "json (cut short)"}

SuccessOutput(x) ==
    \/ x.sentCtype = JSONType
    \/ \E i \in 1..Len(x.body) : IsJSONChunk(x.body[i])

ErrorOutput(x) ==
    \/ x.status = StatusInternalServerError
    \/ \E i \in 1..Len(x.body) : ~IsJSONChunk(x.body[i])

\* C10 (no partial or mixed responses), as claimed: no response carries both
\* success output (the JSON content type, JSON bytes) and an error response
\* (the failure status, an error message), also when serializing the result
\* of the domain operation fails.
C10_NoMixedResponse ==
    \A r \in Requests : ~(SuccessOutput(w[r]) /\ ErrorOutput(w[r]))

\* ------------------------------------------------------------------------
\* The request r has just written its response after its domain operation
\* returned.
Responding(r) == ev.kind = "respond" /\ ev.req = r

\* C11 (response mapping), as claimed: when the domain operation succeeds
\* with a non-empty result the response has the JSON content type and the
\* JSON of the result; when it succeeds with nil nothing is written, no body
\* and no content type; when it fails the response is a failure response
\* whose body is the error's message, and the result is not serialized.
C11_ResponseMapping ==
    \A r \in Requests :
        pc[r] \in {"Returning", "Responded"}
        => /\ (err[r] = "" /\ v[r] # "nil")
              => w[r].sentCtype = JSONType /\ w[r].body = <<"json">>
           /\ (err[r] = "" /\ v[r] = "nil")
              => w[r].body = <<>> /\ w[r].ctype = "" /\ w[r].sentCtype = ""
           /\ err[r] # ""
              => FailureResponse(w[r]) /\ w[r].body = <<err[r]>>

\* C11, amended: the same mapping, where a non-empty result gives the JSON
\* response only when the encoder succeeds.  When the encoder fails before
\* writing, the response is a failure response with the encoder's message;
\* when it fails while writing, the response keeps status 200 and the JSON
\* content type, and the encoder's message follows the JSON already written.
C11_ResponseMappingPerEncoderOutcome ==
    \A r \in Requests :
        Responding(r)
        => /\ pc[r] = "Returning"
           /\ (err[r] = "" /\ v[r] # "nil" /\ ev.enc = "ok")
              => /\ w[r].status = StatusOK
                 /\ w[r].sentCtype = JSONType
                 /\ w[r].body = <<"json">>
           /\ (err[r] = "" /\ v[r] # "nil" /\ ev.enc = "marshal")
              => /\ FailureResponse(w[r])
                 /\ w[r].sentCtype = TextType
                 /\ w[r].body = <<ErrMarshal>>
           /\ (err[r] = "" /\ v[r] # "nil" /\ ev.enc = "write")
              => /\ w[r].status = StatusOK
                 /\ w[r].sentCtype = JSONType
                 /\ w[r].body = <<"json (cut short)", ErrWrite>>
           /\ (err[r] = "" /\ v[r] # "nil") => ev.enc \in EncodeOutcomes
           /\ (err[r] = "" /\ v[r] = "nil")
              => w[r] = NewWriter
           /\ err[r] # ""
              => /\ FailureResponse(w[r])
                 /\ w[r].sentCtype = TextType
                 /\ w[r].body = <<err[r]>>

\* Witness of C11: responses of all three kinds have been written, the last
\* one the JSON of a non-empty result.
C11_Witness ==
    \E r, q \in Requests :
        /\ r # q
        /\ Responding(r)
        /\ err[r] = "" /\ v[r] # "nil" /\ ev.enc = "ok"
        /\ w[r].body = <<"json">>
        /\ pc[q] = "Responded"
        /\ err[q] = "" /\ v[q] = "nil"
        /\ w[q] = NewWriter

\* ------------------------------------------------------------------------
\* What holds of a request at every moment: it has a handle only once it is
\* authenticated, its domain operation has run only on a handle bound to its
\* identity, and once it has released it takes no further step of its own.
C12_StateOrder ==
    \A r \in Requests :
        /\ acquires[r] > 0 => caller[r] # ""
        /\ invoked[r] > 0 => acquires[r] = 1
        /\ (invoked[r] > 0 /\ releases[r] = 0) => huser[cr[r]] = caller[r]
        /\ releases[r] > 0 => invoked[r] = 1 /\ pc[r] \in {"Responded", "Aborted"}

\* What holds of every step of a request: the state it starts from has
\* completed the steps that come before it.
C12_StepOrder ==
    \A r \in Requests :
        \* acquire: authenticated, nothing bound or run yet
        /\ acquires'[r] > acquires[r]
           => caller[r] # "" /\ pc[r] = "Authenticated" /\ invoked[r] = 0
        \* bind: the handle is acquired, the operation has not run
        /\ (pc'[r] = "ResourceBound" /\ pc[r] # "ResourceBound")
           => /\ acquires[r] = 1 /\ invoked[r] = 0 /\ releases[r] = 0
              /\ huser'[cr[r]] = caller[r]
        \* dispatch: the handle is bound, nothing is written or released
        /\ invoked'[r] > invoked[r]
           => /\ pc[r] = "ResourceBound"
              /\ huser[cr[r]] = caller[r]
              /\ w[r] = NewWriter
              /\ releases[r] = 0
        \* the response of an authenticated request: the operation has
        \* returned, the handle is not released yet
        /\ (w'[r] # w[r] /\ caller[r] # "" /\ arrivals' = arrivals)
           => pc[r] = "Dispatched" /\ invoked[r] = 1 /\ releases[r] = 0
        \* release: the response is written, or a panic unwinds
        /\ releases'[r] > releases[r]
           => /\ pc[r] \in {"Returning", "Panicking"}
              /\ pc'[r] \in {"Responded", "Aborted"}
              /\ w'[r] = w[r]
        \* after the release the request does nothing; the next step on its
        \* connection is a new request, which leaves the pool alone
        /\ (releases[r] > 0 /\ pc'[r] # pc[r])
           => /\ arrivals' = arrivals + 1
              /\ cr'[r] = NoHandle
              /\ <<idle, live, huser>>' = <<idle, live, huser>>

\* C12 (per-request ordering).  Within one request authentication succeeds
\* before the handle is acquired and bound, binding precedes the domain
\* operation, the response is written after the operation returns, the
\* release comes last, and the request does not touch the handle afterwards.
C12_Ordering == []C12_StateOrder /\ [][C12_StepOrder]_vars

\* Witness of C12: a request went through all its steps and released its
\* handle, which another request of another caller now holds and has bound.
C12_Witness ==
    \E r, q \in Requests :
        /\ r # q
        /\ pc[r] = "Responded"
        /\ invoked[r] = 1 /\ releases[r] = 1
        /\ w[r].body # <<>>
        /\ pc[q] = "ResourceBound"
        /\ cr[q] = put[r]
        /\ huser[put[r]] = caller[q]
        /\ caller[q] # caller[r]

\* ------------------------------------------------------------------------
\* A request whose Get panicked in New has no handle, ran no domain
\* operation, made no repository call, wrote nothing and released nothing.
C13_NoHandleAfterPoolPanic ==
    \A r \in Requests :
        pc[r] = "PoolPanic"
        => /\ caller[r] # ""
           /\ cr[r] = NoHandle
           /\ acquires[r] = 0
           /\ invoked[r] = 0
           /\ repo[r] = 0
           /\ releases[r] = 0
           /\ put[r] = NoHandle
           /\ w[r] = NewWriter

\* The step on which New panics leaves the pool as it was, and the request
\* takes no step after it.
C13_PoolPanicStep ==
    \A r \in Requests :
        /\ (pc[r] = "Authenticated" /\ pc'[r] = "PoolPanic")
           => <<idle, live, huser>>' = <<idle, live, huser>>
        /\ pc[r] = "PoolPanic"
           => <<pc[r], cr[r], acquires[r], invoked[r], releases[r]>>'
                = <<pc[r], cr[r], acquires[r], invoked[r], releases[r]>>

\* C13 (pool construction failure is fatal).  When the backend provider fails
\* while Get constructs a handle, Get panics instead of returning: no handle
\* enters the pool, no domain operation is invoked for the request, and the
\* request releases nothing.
C13_PoolPanicIsFatal == []C13_NoHandleAfterPoolPanic /\ [][C13_PoolPanicStep]_vars

\* Witness of C13: New panicked for a request while the pool had no idle
\* handle, its only handle being held by the other request.
C13_Witness ==
    \E r, q \in Requests :
        /\ r # q
        /\ pc[r] = "PoolPanic"
        /\ idle = {}
        /\ Holding(q)
        /\ live = {cr[q]}

\* ------------------------------------------------------------------------
ReadOps == {"chartsOfAccounts", "getChartOfAccounts", "accounts", "getAccount"}

\* C14 (lazy body decoding).  The decoder runs only inside a save operation.
\* A read operation never runs it, whatever the body: it makes its one
\* repository call and fails only if that call fails, so a body that cannot
\* be decoded does not make a read request fail.
C14_LazyDecoding ==
    \A r \in Requests :
        /\ Dispatching(r)
           => /\ ev.res.decoded = (IF ev.route.f \in ReadOps THEN 0 ELSE 1)
              /\ ev.route.f \in ReadOps <=> ev.route.method = "GET"
              /\ ev.route.f \in ReadOps
                 => /\ Len(ev.res.calls) = 1
                    /\ ev.res.err \in {"", ErrDomain}
                    /\ \A b \in Bodies, out \in RepoOutcomes :
                          Apply(ev.route.f, caller[r], ev.route.ps, b, out)
                            = Apply(ev.route.f, caller[r], ev.route.ps, ev.body, out)
        /\ err[r] = ErrDecode => repo[r] = 0 /\ invoked[r] = 1

\* Witness of C14: a read request with a body that cannot be decoded got a
\* value from the repository and answered with its JSON.
C14_Witness ==
    \E r, q \in Requests :
        /\ Dispatching(q)
        /\ ev.route.f = "getAccount"
        /\ ~ev.body.ok
        /\ ev.res.decoded = 0
        /\ ev.res.v = "value"
        /\ pc[r] = "Responded"
        /\ err[r] = ""
        /\ w[r].body = <<"json">>

\* ------------------------------------------------------------------------
\* C15 (the id is overwritten only by the entity's own path id).  A save with
\* a decodable body hands the repository an entity whose id is the one of
\* the body when the path has no id for the entity itself (POST), and the
\* path's own id otherwise.  For save account the own id is the account
\* parameter; the coa parameter is the chart argument of SaveAccount and
\* nothing else.
C15_OwnPathIdOnly ==
    \A r \in Requests :
        (Dispatching(r) /\ ev.route.f \in {"saveChartsOfAccounts", "saveAccount"}
           /\ ev.body.ok)
        => /\ Len(ev.res.calls) = 1
           /\ ev.route.method = "POST" <=> PathId(ev.route) = ""
           /\ ev.res.calls[1].entity.Id
                = (IF PathId(ev.route) = "" THEN ev.body.Id ELSE PathId(ev.route))
           /\ ev.route.f = "saveAccount"
              => /\ ev.res.calls[1].op = "SaveAccount"
                 /\ ev.res.calls[1].coa = ByName(ev.route.ps, "coa")
                 /\ ev.res.calls[1].coa # ""
                 /\ ev.res.calls[1].entity.Id
                      = (IF ByName(ev.route.ps, "account") = "" THEN ev.body.Id
                         ELSE ByName(ev.route.ps, "account"))
           /\ ev.route.f = "saveChartsOfAccounts"
              => /\ ev.res.calls[1].op = "SaveChartOfAccounts"
                 /\ ev.res.calls[1].coa = ""

\* Witness of C15: a POST of an account under a chart, whose body carries an
\* id other than the chart's, reached the repository with the body's id and
\* the chart's id as the chart argument.
C15_Witness ==
    \E r \in Requests :
        /\ Dispatching(r)
        /\ ev.route.method = "POST"
        /\ ev.route.f = "saveAccount"
        /\ ev.body.ok
        /\ ev.body.Id = "a1"
        /\ ev.res.calls[1].entity.Id = "a1"
        /\ ev.res.calls[1].coa = "c1"

\* ------------------------------------------------------------------------
\* A request rejected by authentication has made no acquire and has no
\* handle.
C16_RejectedAcquiredNothing ==
    \A r \in Requests :
        pc[r] = "Rejected"
        => acquires[r] = 0 /\ cr[r] = NoHandle /\ releases[r] = 0 /\ put[r] = NoHandle

\* The step on which a request runs user(), whether it succeeds or fails,
\* changes the request's own identity and response and nothing else: not the
\* idle handles, not the set of constructed handles, not the identity bound
\* in any handle, not another request.
C16_AuthenticationStep ==
    \A r \in Requests :
        (pc[r] = "Unauthenticated" /\ pc'[r] # pc[r])
        => /\ pc'[r] \in {"Rejected", "Authenticated"}
           /\ <<idle, live, huser>>' = <<idle, live, huser>>
           /\ <<cr, acquires, releases, put>>' = <<cr, acquires, releases, put>>
           /\ \A q \in Requests \ {r} :
                 /\ <<pc[q], caller[q], w[q]>>' = <<pc[q], caller[q], w[q]>>
                 /\ Holding(q) => huser'[cr[q]] = huser[cr[q]]

\* C16 (authentication has no effect on shared state).  A request that fails
\* authentication acquires nothing and constructs no handle, and
\* authentication leaves the idle handles and every handle's bound identity
\* as they were, the handles leased to other requests included.
C16_AuthenticationIsPure ==
    []C16_RejectedAcquiredNothing /\ [][C16_AuthenticationStep]_vars

\* Witness of C16: a request was rejected while the other request, of a
\* verified caller, holds a handle bound to its own identity.
C16_Witness ==
    \E r, q \in Requests :
        /\ r # q
        /\ Authenticating(r)
        /\ pc[r] = "Rejected"
        /\ pc[q] \in {"ResourceBound", "Dispatched"}
        /\ caller[q] # ""
        /\ huser[cr[q]] = caller[q]
        /\ idle # {}

\* ------------------------------------------------------------------------
\* The request on connection r is in flight: it arrived and its handler has
\* not finished.
InFlight(r) ==
    pc[r] \in {"Unauthenticated", "Authenticated", "Acquired", "ResourceBound",
               "Dispatched", "Panicking", "Returning"}

\* When no request is in flight every constructed handle is idle in the pool.
C17_NoLeaseAtRest ==
    (\A r \in Requests : ~InFlight(r))
    => /\ live \subseteq idle
       /\ \A r \in Requests : acquires[r] = releases[r]

\* A request holding a handle eventually has released it.
C17_HandleReturns ==
    \A r \in Requests : (acquires[r] = 1 /\ releases[r] = 0) ~> (releases[r] = 1)

\* C17 (termination), as claimed: every request eventually reaches a
\* responded state, success or error, unless its domain operation or the
\* encoder does not return normally; every acquired handle is eventually released, and no
\* handle is leased once no request is in flight.
C17_EveryRequestResponds ==
    /\ \A r \in Requests :
          (pc[r] = "Unauthenticated")
            ~> (pc[r] \in {"Rejected", "Responded", "Panicking", "Aborted"})
    /\ C17_HandleReturns
    /\ []C17_NoLeaseAtRest

\* C17, amended: every request eventually ends, with a response (rejected by
\* authentication, or responded after its domain operation), or without one
\* when a panic unwinds its handler (New failing in Get, the domain
\* operation, the encoder); every acquired handle is eventually released, and no handle
\* is leased once no request is in flight.
C17_EveryRequestEnds ==
    /\ \A r \in Requests :
          (pc[r] = "Unauthenticated")
            ~> (pc[r] \in {"Rejected", "Responded", "Aborted", "PoolPanic"})
    /\ C17_HandleReturns
    /\ []C17_NoLeaseAtRest

\* Witness of C17: both connections are at rest after requests that held
\* handles, one ended by a response and one by a panic of its domain
\* operation, and both handles are idle in the pool.
C17_Witness ==
    \E r, q \in Requests :
        /\ pc[r] = "Responded"
        /\ pc[q] = "Aborted"
        /\ releases[r] = 1 /\ releases[q] = 1
        /\ put[r] # put[q]
        /\ idle = {put[r], put[q]}
        /\ live = idle

\* ------------------------------------------------------------------------
\* A request whose handler is unwinding after a panic still holds its handle,
\* bound to its identity, and its deferred Put can run; once aborted it has
\* released that handle exactly once.  A request that then leases the handle
\* runs its domain operation with its own identity in it.
C18_ReleasedOnceAfterPanic ==
    \A r \in Requests :
        /\ pc[r] = "Panicking"
           => /\ acquires[r] = 1 /\ releases[r] = 0
              /\ cr[r] \in live \ idle
              /\ huser[cr[r]] = caller[r]
              /\ ENABLED Put(r)
        /\ pc[r] = "Aborted"
           => /\ acquires[r] = 1 /\ releases[r] = 1
              /\ put[r] = cr[r]
              /\ \A q \in Requests \ {r} :
                    (Holding(q) /\ cr[q] = put[r] /\ invoked[q] > 0)
                    => huser[cr[q]] = caller[q]
              /\ \A q \in Requests \ {r} :
                    (Dispatching(q) /\ cr[q] = put[r])
                    => \A i \in 1..Len(ev.res.calls) :
                          ev.res.calls[i].storeUser = caller[q]

\* The only step of a request whose handler is unwinding is the release of
\* its handle into the pool.
C18_UnwindingStep ==
    \A r \in Requests :
        (pc[r] = "Panicking" /\ pc'[r] # pc[r])
        => /\ pc'[r] = "Aborted"
           /\ releases'[r] = 1
           /\ idle' = idle \cup {cr[r]}
           /\ huser' = huser

\* C18 (release survives abnormal exit).  When the domain operation or the
\* serialization of its result panics, the handle the request acquired and
\* bound is still released to the pool, exactly once, and a later request
\* that leases it binds its own identity before its domain call.
C18_ReleaseSurvivesPanic == []C18_ReleasedOnceAfterPanic /\ [][C18_UnwindingStep]_vars

\* Witness of C18: the encoder panicked for a request of one caller; its
\* handle was released and leased to a request of another caller, whose
\* repository call read the second caller's identity.
C18_Witness ==
    \E r, q \in Requests :
        /\ r # q
        /\ pc[r] = "Aborted"
        /\ invoked[r] = 1 /\ err[r] = "" /\ v[r] = "value"
        /\ w[r].ctype = JSONType
        /\ Dispatching(q)
        /\ cr[q] = put[r]
        /\ caller[q] \notin {"", caller[r]}
        /\ Len(ev.res.calls) = 1
        /\ ev.res.calls[1].storeUser = caller[q]

====
